---- MODULE Spec2Model ----
(***************************************************************************)
(* A model of the LeonardoAI client (src/leonardo_ai/leonardo_ai.py) and   *)
(* of the entry-point flow of src/leonardo_ai/app.py.                      *)
(*                                                                         *)
(* One caller drives one client.  A call is started by one of the call     *)
(* actions; a call that polls then proceeds one loop iteration at a time   *)
(* (loop test, status request, handling of the answer, sleep) until it     *)
(* returns or raises.  The remote service and the network are the          *)
(* environment: every answer and every request duration is chosen          *)
(* nondeterministically from a small set.                                  *)
(*                                                                         *)
(* Spec is the client driven by one caller.  SpecThreads is the client     *)
(* shared by two callers of generate_image_from_template, each in a        *)
(* thread, interleaved statement by statement.  SpecLive is Spec with the  *)
(* assumption that a poll loop in progress takes its next step.            *)
(*                                                                         *)
(* Python values are modelled as strings: None is "None", True and False   *)
(* are "True" and "False", numbers are their decimal text.                 *)
(***************************************************************************)
EXTENDS Integers, Sequences, FiniteSets, TLC

\* ------------------------------------------------------------------ bounds
\* largest poll_interval a caller passes
MaxInterval == 2
\* largest timeout a caller passes
MaxTimeout == 3
\* longest time one status request takes on the clock
MaxLatency == 1

\* ------------------------------------------------------- program constants
\* poll_interval: int = 10
DefaultPollInterval == 10
\* timeout: int = 300
DefaultTimeout == 300

None == "None"

\* ----------------------------------------------------- generation parameters
\* the allow-list of generate_images
photoreal_v2_models ==
    { "aa77f04e-3eec-4034-9c07-d0f619684628",
      "1e60896f-3c26-4296-8ecc-53e2afecc132",
      "5c232a9e-9061-4777-980a-ddc8e65647c6" }

KinoXL == "aa77f04e-3eec-4034-9c07-d0f619684628"
CustomModel == "custom-model"

\* the parameters of generate_images that a template may replace
TemplateFields ==
    { "prompt", "model_id", "num_images", "width", "height", "alchemy",
      "photoReal", "photoRealVersion", "presetStyle", "guidance_scale",
      "num_inference_steps", "init_image_id", "init_strength" }

\* the parameters of generate_images that go to the payload untouched
PassFields ==
    { "contrastRatio", "controlnets", "elements", "expandedDomain",
      "fantasyAvatar", "highContrast", "highResolution", "imagePrompts",
      "imagePromptWeight", "init_generation_image_id", "negative_prompt",
      "photoRealStrength", "promptMagic", "promptMagicStrength",
      "promptMagicVersion", "public", "scheduler", "sd_version", "seed",
      "tiling", "transparency", "unzoom", "unzoomAmount", "upscaleRatio" }

\* every keyword parameter of generate_images that reaches the payload
Params == TemplateFields \cup PassFields

\* the signature's defaults; prompt has none (it is required)
Defaults ==
    [ f \in Params \ {"prompt"} |->
        CASE f = "num_images" -> "1"
          [] f = "width" -> "1024"
          [] f = "height" -> "1024"
          [] f = "alchemy" -> "True"
          [] f = "photoReal" -> "True"
          [] f = "photoRealVersion" -> "v2"
          [] f = "presetStyle" -> "DYNAMIC"
          [] f = "guidance_scale" -> "7"
          [] f = "num_inference_steps" -> "15"
          [] f \in {"expandedDomain", "fantasyAvatar", "highContrast",
                    "highResolution", "promptMagic"} -> "False"
          [] OTHER -> None ]

\* Python's binding of the keyword arguments `given` to the parameters
Bind(given) ==
    [ f \in Params |-> IF f \in DOMAIN given THEN given[f] ELSE Defaults[f] ]

\* the payload key a parameter is sent under
PayloadKey(f) == IF f = "model_id" THEN "modelId" ELSE f

PayloadKeys == { PayloadKey(f) : f \in Params }

ParamOf(k) == IF k = "modelId" THEN "model_id" ELSE k

\* the merge with the arguments first: a template's field is used only
\* where the argument is None
merge_arguments_first(tpls, template_name, a) ==
    IF template_name # None /\ template_name # "" /\ template_name \in DOMAIN tpls
    THEN [ f \in Params |->
             IF f \in TemplateFields /\ f \in DOMAIN tpls[template_name]
                /\ a[f] = None
             THEN tpls[template_name][f]
             ELSE a[f] ]
    ELSE a

\* lines 232-248: a registered template's fields replace the arguments
merge_template(tpls, template_name, a) ==
    IF template_name # None /\ template_name # "" /\ template_name \in DOMAIN tpls
    THEN [ f \in Params |->
             IF f \in TemplateFields /\ f \in DOMAIN tpls[template_name]
             THEN tpls[template_name][f]
             ELSE a[f] ]
    ELSE a

\* any model id the caller or the template names passes
v2_model_named(model_id) == model_id # None

\* line 251: model_id in photoreal_v2_models.values()
v2_model_allowed(model_id) == model_id \in photoreal_v2_models

\* lines 250-253: the cross-field check that raises
v2_rejected(r) ==
    r["photoRealVersion"] = "v2" /\ ~v2_model_allowed(r["model_id"])

\* alchemy stays as the caller or the template gave it
keep_alchemy(r) == r

\* line 254: photoReal v2 forces alchemy
force_alchemy(r) ==
    IF r["photoRealVersion"] = "v2" THEN [r EXCEPT !["alchemy"] = "True"] ELSE r

\* lines 256-294: the payload dictionary
build_payload(r) == [ k \in PayloadKeys |-> r[ParamOf(k)] ]

\* ------------------------------------------------------------ HTTP answers
\* An answer of the transport: net = "down" is a connection failure (requests
\* raises), otherwise a status code and a body that parses as JSON or not.
StatusCodes == {200, 401, 404, 500}

JobStatuses == {"PENDING", "COMPLETE", "FAILED"}

NoBody == [shape |-> "none"]

Down == [net |-> "down", code |-> 0, json |-> "none", body |-> NoBody]

Http(code, body) == [net |-> "up", code |-> code, json |-> "ok", body |-> body]

BadJson == [net |-> "up", code |-> 200, json |-> "bad", body |-> NoBody]

\* a success without a body
NoContent == Http(204, NoBody)

\* answers that carry no usable body
FailedAnswers ==
    {Down, BadJson} \cup { Http(c, NoBody) : c \in StatusCodes \ {200} }

\* image records of a generation
Image1 == [id |-> "abc", url |-> "http://x/1.jpg"]
Image2 == [id |-> "def", url |-> "http://x/2.jpg"]
ImageLists == { <<>>, <<Image1>>, <<Image1, Image2>> }

\* bodies of GET generations/{id}: generations_by_pk is absent, null, or a
\* record with a status and the generated_images list
GenerationBodies ==
    { [shape |-> "generation", pk |-> "absent", status |-> None, generated_images |-> <<>>],
      [shape |-> "generation", pk |-> "null", status |-> None, generated_images |-> <<>>] }
    \cup
    { [shape |-> "generation", pk |-> "obj", status |-> s, generated_images |-> L] :
        s \in JobStatuses, L \in ImageLists }

\* items of generated_image_variation_generic; url is None while there is
\* no image, and "nokey" is a finished item without the url key
VariationItems ==
    { [status |-> s, url |-> u] :
        s \in JobStatuses, u \in {None, "http://x/up.jpg"} }
    \cup { [status |-> "COMPLETE", url |-> "nokey"] }

\* items that carry no url yet: the scan of get_upscaled_image goes past them
UnfinishedItems ==
    { a \in VariationItems : a.url = None /\ a.status # "FAILED" }

\* bodies of GET variations/{id}: the key is absent, or the list has no
\* item, one item, or a second item behind an unfinished one
VariationBodies ==
    { [shape |-> "variation", key |-> "absent", items |-> <<>>],
      [shape |-> "variation", key |-> "present", items |-> <<>>] }
    \cup { [shape |-> "variation", key |-> "present", items |-> <<a>>] :
             a \in VariationItems }
    \cup { [shape |-> "variation", key |-> "present", items |-> <<a, b>>] :
             a \in UnfinishedItems, b \in VariationItems }

GenerationAnswers == FailedAnswers \cup { Http(200, b) : b \in GenerationBodies }

VariationAnswers == FailedAnswers \cup { Http(200, b) : b \in VariationBodies }

\* ------------------------------------------------------------------ errors
\* messages raised as LeonardoAIError
LeonardoAIError ==
    { "Unauthorized", "NotFound", "RequestFailed", "JobFailed", "Timeout",
      "PhotoRealV2Model", "NoGenerationId", "GenerationNotFound",
      "TemplateNotFound", "NoUpscalerJobId", "MotionImageError",
      "ApiKeyMissing", "UserIdError", "UploadFailed" }

\* other exceptions of the Python runtime and of requests
OtherError ==
    { "ConnectionError", "JSONDecodeError", "KeyError", "IndexError",
      "AttributeError", "TypeError", "UnboundLocalError",
      "FileNotFoundError" }

\* ------------------------------------------------------------------ values
\* what a call hands back: nothing, a str, a list or a dict
NoVal ==
    [type |-> "none", status |-> None, images |-> <<>>, url |-> None,
     id |-> None, image_info |-> "absent"]

StrVal(s) == [NoVal EXCEPT !.type = "str", !.url = s]

ListVal(L) == [NoVal EXCEPT !.type = "list", !.images = L]

\* the generations_by_pk record
GenerationDict(b) ==
    [NoVal EXCEPT !.type = "dict", !.status = b.status, !.images = b.generated_images]

\* a status payload of a variation job, or one item of it
VariationDict(item) ==
    [NoVal EXCEPT !.type = "dict", !.status = item.status, !.url = item.url]

\* the outcome of a step: return a value, raise an error, or go on (sleep)
Return(v) == [act |-> "return", err |-> None, val |-> v]
Raise(e) == [act |-> "raise", err |-> e, val |-> NoVal]
Sleep(e) == [act |-> "sleep", err |-> e, val |-> NoVal]

\* the status mapping without the 401 and 404 cases
make_request_generic(resp) ==
    IF resp.net = "down" THEN Raise("ConnectionError")
    ELSE IF resp.code = 200
         THEN IF resp.json = "bad" THEN Raise("JSONDecodeError")
              ELSE Return(NoVal)
    ELSE Raise("RequestFailed")

\* lines 62-83
make_request(resp) ==
    IF resp.net = "down" THEN Raise("ConnectionError")
    ELSE IF resp.code = 200
         THEN IF resp.json = "bad" THEN Raise("JSONDecodeError")
              ELSE Return(NoVal)
    ELSE IF resp.code = 401 THEN Raise("Unauthorized")
    ELSE IF resp.code = 404 THEN Raise("NotFound")
    ELSE Raise("RequestFailed")

\* lines 117-141: the answer of GET generations/{id} turned into the
\* generations_by_pk record, or an error
get_single_generation(resp) ==
    LET r == make_request(resp)
        b == resp.body
    IN  IF r.act = "raise" THEN r
        ELSE IF b.pk = "null" THEN Raise("AttributeError")
        ELSE IF b.pk = "absent" \/ b.generated_images = <<>>
             THEN Raise("GenerationNotFound")
        ELSE Return(GenerationDict(b))

\* lines 323-329: one iteration of wait_for_generation_completion; only
\* LeonardoAIError is caught
wait_iteration(resp) ==
    LET g == get_single_generation(resp)
    IN  IF g.act = "return" THEN g
        ELSE IF g.err \in LeonardoAIError THEN Sleep(g.err)
        ELSE g

\* a status word other than the service's: the comparison never holds
is_complete_misspelt(status) == status = "COMPLETED"

\* lines 102, 451, 545: status == 'COMPLETE'
is_complete(status) == status = "COMPLETE"

\* lines 96-112: one iteration of _poll_job_completion; every exception
\* raised inside the try is caught and printed
poll_iteration(resp) ==
    LET b == resp.body
    IN  IF resp.net = "down" THEN Sleep("ConnectionError")
        ELSE IF resp.code # 200 THEN Sleep("RequestFailed")
        ELSE IF resp.json = "bad" THEN Sleep("JSONDecodeError")
        ELSE IF b.key = "absent" THEN Sleep(None)
        ELSE IF b.items = <<>> THEN Sleep("IndexError")
        ELSE IF is_complete(b.items[1].status)
             THEN Return(VariationDict(b.items[1]))
        ELSE IF b.items[1].status = "FAILED" THEN Sleep("JobFailed")
        ELSE Sleep(None)

\* lines 450-454: the scan of the items, from item n on
RECURSIVE scan_items(_, _)
scan_items(items, n) ==
    IF n > Len(items) THEN Sleep(None)
    ELSE IF is_complete(items[n].status) /\ items[n].url = "nokey"
         THEN Sleep("KeyError")
    ELSE IF is_complete(items[n].status) /\ items[n].url # None
         THEN Return([StrVal(items[n].url) EXCEPT !.status = items[n].status])
    ELSE IF items[n].status = "FAILED" THEN Sleep("JobFailed")
    ELSE scan_items(items, n + 1)

\* lines 443-459: one iteration of get_upscaled_image
upscaled_iteration(resp) ==
    LET b == resp.body
    IN  IF resp.net = "down" THEN Sleep("ConnectionError")
        ELSE IF resp.code # 200 THEN Sleep("RequestFailed")
        ELSE IF resp.json = "bad" THEN Sleep("JSONDecodeError")
        ELSE IF b.key = "absent" THEN Sleep(None)
        ELSE scan_items(b.items, 1)

\* lines 541-550: one iteration of the loop of create_universal_upscaler
upscaler_iteration(resp) ==
    LET r == make_request(resp)
        b == resp.body
    IN  IF r.act = "raise" THEN Sleep(r.err)
        ELSE IF b.key = "absent" THEN Sleep("KeyError")
        ELSE IF b.items = <<>> THEN Sleep("IndexError")
        ELSE IF is_complete(b.items[1].status)
             THEN Return(VariationDict(b.items[1]))
        ELSE IF b.items[1].status = "FAILED" THEN Sleep("JobFailed")
        ELSE Sleep(None)

\* the poll loops, by the method that runs them
PollLoops ==
    { "wait_for_generation_completion", "_poll_job_completion",
      "get_upscaled_image", "create_universal_upscaler" }

\* the loop a call is in: generate_images and the calls that go through it
\* wait in wait_for_generation_completion
LoopOf(o) ==
    IF o \in {"generate_images", "generate_image_from_template", "main"}
    THEN "wait_for_generation_completion"
    ELSE o

\* a status source that never answers
no_answers(loop) == {}

\* the answers a loop's status request can get
AnswersOf(loop) ==
    IF loop = "wait_for_generation_completion" THEN GenerationAnswers
    ELSE VariationAnswers

\* one iteration of the loop, given the answer to its status request
iteration(loop, resp) ==
    CASE loop = "wait_for_generation_completion" -> wait_iteration(resp)
      [] loop = "_poll_job_completion" -> poll_iteration(resp)
      [] loop = "get_upscaled_image" -> upscaled_iteration(resp)
      [] loop = "create_universal_upscaler" -> upscaler_iteration(resp)

\* the job status a status answer reports: the status of generations_by_pk,
\* or of the first item of generated_image_variation_generic
ReportedStatus(resp) ==
    IF resp.net # "up" \/ resp.code # 200 \/ resp.json # "ok" THEN "transport"
    ELSE IF resp.body.shape = "generation"
         THEN IF resp.body.pk = "obj" THEN resp.body.status ELSE "shape"
    ELSE IF resp.body.key = "present" /\ resp.body.items # <<>>
         THEN resp.body.items[1].status
    ELSE "shape"

\* the answer is that of a job still running: PENDING and no artifact yet
ReportsPending(resp) ==
    /\ ReportedStatus(resp) = "PENDING"
    /\ resp.body.shape = "generation" => resp.body.generated_images = <<>>
    /\ resp.body.shape = "variation" =>
         \A n \in 1 .. Len(resp.body.items) :
            resp.body.items[n].status = "PENDING"

\* the loop test with <= for <
within_timeout_inclusive(t, start, limit) == t - start <= limit

\* the loop test of a loop that checks once before it looks at the clock
within_timeout_after_check(t, start, limit) == t = start \/ t - start < limit

\* lines 95, 322, 442, 540: time.time() - start_time < timeout
within_timeout(t, start, limit) == t - start < limit

\* ------------------------------------------------------------ the registry
Prompts == {"p1", "p2"}

\* the templates a template file may hold under the name "artimage"
LoadableTemplates ==
    { <<>>,
      [model_id |-> KinoXL],
      [model_id |-> KinoXL, alchemy |-> "False"],
      [model_id |-> CustomModel, photoRealVersion |-> "v1"] }

\* lines 29-33 and 47-59: self.templates after construction; empty without a
\* template file or when loading failed
LoadedRegistries ==
    { <<>> } \cup { [n \in {"artimage"} |-> t] : t \in LoadableTemplates }

TemplateNames == {"artimage", "nosuch"}

\* a dict with key k set to v
SetKey(d, k, v) ==
    [ x \in DOMAIN d \cup {k} |-> IF x = k THEN v ELSE d[x] ]

\* what the lookup of lines 494-501 and 510-515 raises when it finds no
\* template: a list has no method get
lookup_error(templates_type) ==
    IF templates_type = "list" THEN "AttributeError" ELSE "TemplateNotFound"

\* lines 494-501: templates.get(template_name, {})
get_template(template_name, tpls) ==
    IF template_name \in DOMAIN tpls THEN tpls[template_name] ELSE <<>>

\* the keyword arguments a caller of generate_images passes
GivenArgs ==
    UNION { [ {"prompt"} \cup S ->
                {"p1", "p2", KinoXL, CustomModel, "v1", "v2", "False"} ] :
            S \in SUBSET {"model_id", "photoRealVersion", "alchemy"} }

WellTyped(g) ==
    /\ g["prompt"] \in Prompts
    /\ "model_id" \in DOMAIN g => g["model_id"] \in {KinoXL, CustomModel}
    /\ "photoRealVersion" \in DOMAIN g => g["photoRealVersion"] \in {"v1", "v2"}
    /\ "alchemy" \in DOMAIN g => g["alchemy"] = "False"

Givens == { g \in GivenArgs : WellTyped(g) }

\* answers to POST generations
SubmitBodies ==
    { [shape |-> "submit", job |-> j, generationId |-> g] :
        j \in {"absent", "null", "obj"}, g \in {None, "", "g1"} }

SubmitAnswers ==
    FailedAnswers \cup {NoContent} \cup
    { Http(200, b) : b \in { x \in SubmitBodies :
                               x.job # "obj" => x.generationId = None } }

\* the submission without the extraction of the generation id
submit_without_id(resp) ==
    LET r == make_request(resp)
    IN  IF r.act = "raise" THEN r
        ELSE Return([NoVal EXCEPT !.type = "dict"])

\* lines 296-302: the submission and the extraction of the generation id
submit_generation(resp) ==
    LET r == make_request(resp)
        b == resp.body
    IN  IF r.act = "raise" THEN r
        ELSE IF b.job = "null" THEN Raise("AttributeError")
        ELSE IF b.job = "absent" \/ b.generationId \in {None, ""}
             THEN Raise("NoGenerationId")
        ELSE Return([NoVal EXCEPT !.type = "dict", !.id = b.generationId])

\* ------------------------------------------------------------------- state
VARIABLES
    templates,      \* self.templates
    op,             \* the method the caller called last
    pc,             \* "idle", "wait" (line 306), "poll" (a loop test), "done"
    args,           \* the arguments of the generate_images call in progress
    locals,         \* its parameters after lines 232-254
    sent,           \* the last request put on the wire
    reply,          \* the answer to the call's submission
    nreq,           \* requests issued by the call so far
    poll_interval,  \* of the loop in progress
    timeout,        \* of the loop in progress
    start_time,     \* of the loop in progress
    job_id,         \* the id the loop's status requests address
    now,            \* time.time()
    latency,        \* the time a status request of this loop takes
    checks,         \* status requests issued by the loop
    answer,         \* the answer to the last status request
    onlyPending,    \* every answer before the last one reported PENDING
    result,         \* "none", "returned" or "raised"
    error,          \* the error raised
    retval,         \* the value returned
    template_file,  \* the registry as load_templates read it from the file
    callers,        \* the frames of callers that run on the client in threads
    self            \* the client's other attributes, and the type of
                    \* self.templates ("dict", or "list" when the file held one)

callv == <<op, pc, args, locals, sent, reply, nreq>>
pollv == <<poll_interval, timeout, start_time, job_id, now, latency, checks,
           answer, onlyPending>>
outv == <<result, error, retval>>
\* what no step of a single caller's call touches
filev == <<template_file, callers, self>>
vars == <<templates, callv, pollv, outv, template_file, callers, self>>

NoArgs == [given |-> <<>>, template_name |-> None, wait |-> None]
NoLocals == <<>>
NoRequest == [method |-> None, endpoint |-> None, id |-> None, payload |-> <<>>]
NoAnswer == [net |-> "none", code |-> 0, json |-> "none", body |-> NoBody]

Request(method, endpoint, id, payload) ==
    [method |-> method, endpoint |-> endpoint, id |-> id, payload |-> payload]

\* the status endpoint of a loop
EndpointOf(loop) ==
    IF loop = "wait_for_generation_completion" THEN "generations"
    ELSE "variations"

\* no loop runs in this call; `resp` is the answer to its status request
NoLoopBut(resp) ==
    /\ poll_interval' = 0
    /\ timeout' = 0
    /\ start_time' = 0
    /\ job_id' = None
    /\ now' = 0
    /\ latency' = 0
    /\ checks' = 0
    /\ answer' = resp
    /\ onlyPending' = TRUE

NoLoop == NoLoopBut(NoAnswer)

\* line 23
base_url == "https://cloud.leonardo.ai/api/rest/v1"

\* lines 20-33: the attributes of a constructed client
Client(api_key, user_id, templates_type) ==
    [api_key |-> api_key, base_url |-> base_url, user_id |-> user_id,
     templates_type |-> templates_type]

\* the callers that share the client, each in a thread of its own
Callers == {"A", "B"}

\* the frame of a caller that is in no call
NoFrame ==
    [pc |-> "idle", prompt |-> None, template_name |-> None,
     sent |-> NoRequest, checks |-> 0, waited |-> 0, result |-> "none",
     error |-> None]

Init ==
    /\ templates \in LoadedRegistries
    /\ op = "none"
    /\ pc = "idle"
    /\ args = NoArgs
    /\ locals = NoLocals
    /\ sent = NoRequest
    /\ reply = NoAnswer
    /\ nreq = 0
    /\ poll_interval = 0
    /\ timeout = 0
    /\ start_time = 0
    /\ job_id = None
    /\ now = 0
    /\ latency = 0
    /\ checks = 0
    /\ answer = NoAnswer
    /\ onlyPending = TRUE
    /\ result = "none"
    /\ error = None
    /\ retval = NoVal
    /\ template_file = templates
    /\ callers = [c \in Callers |-> NoFrame]
    /\ self = Client("test_api_key", "u1", "dict")

\* the caller may start a call when none is in progress
Callable == pc = "idle"

\* the call ends: it returns out.val or raises out.err
Finish(out) ==
    /\ pc' = "done"
    /\ result' = IF out.act = "return" THEN "returned" ELSE "raised"
    /\ error' = out.err
    /\ retval' = out.val

\* --------------------------------------------------------- generate_images
\* lines 226-306 of generate_images, called by `caller` on the registry
\* `tpls` with keyword arguments `given`; n requests were issued before
run_generate_images(caller, tpls, given, template_name, wait, resp, n) ==
    LET a == Bind(given)
        m == merge_template(tpls, template_name, a)
        r == force_alchemy(m)
        sub == submit_generation(resp)
    IN  /\ op' = caller
        /\ templates' = tpls
        /\ args' = [given |-> given, template_name |-> template_name,
                    wait |-> wait]
        /\ NoLoop
        /\ UNCHANGED filev
        /\ IF v2_rejected(m)
           THEN /\ locals' = m
                /\ sent' = NoRequest
                /\ reply' = NoAnswer
                /\ nreq' = n
                /\ Finish(Raise("PhotoRealV2Model"))
           ELSE /\ locals' = r
                /\ sent' = Request("POST", "generations", None, build_payload(r))
                /\ reply' = resp
                /\ nreq' = n + 1
                /\ IF sub.act = "raise" \/ wait = "False"
                   THEN Finish(sub)
                   ELSE /\ pc' = "wait"
                        /\ result' = "none"
                        /\ error' = None
                        /\ retval' = sub.val

\* lines 143-306: a call of generate_images
generate_images ==
    /\ Callable
    /\ \E given \in Givens, template_name \in {None} \cup TemplateNames,
          wait \in {"True", "False"}, resp \in SubmitAnswers :
         run_generate_images("generate_images", templates, given,
                             template_name, wait, resp, 0)

\* lines 503-515: a call of generate_image_from_template
generate_image_from_template ==
    /\ Callable
    /\ \E prompt \in Prompts, template_name \in TemplateNames,
          resp \in SubmitAnswers :
         LET template == get_template(template_name, templates)
             written == SetKey(template, "prompt", prompt)
         IN  IF template # <<>>
             THEN run_generate_images(
                      "generate_image_from_template",
                      [templates EXCEPT ![template_name] = written],
                      written, None, "True", resp, 0)
             ELSE /\ op' = "generate_image_from_template"
                  /\ UNCHANGED <<templates, filev>>
                  /\ args' = NoArgs
                  /\ locals' = NoLocals
                  /\ sent' = NoRequest
                  /\ reply' = NoAnswer
                  /\ nreq' = 0
                  /\ NoLoop
                  /\ Finish(Raise(lookup_error(self.templates_type)))

\* lines 494-501: a call of get_template on the registry
call_get_template ==
    /\ Callable
    /\ \E template_name \in TemplateNames :
         /\ op' = "get_template"
         /\ UNCHANGED <<templates, filev>>
         /\ args' = NoArgs
         /\ locals' = NoLocals
         /\ sent' = NoRequest
         /\ reply' = NoAnswer
         /\ nreq' = 0
         /\ NoLoop
         /\ Finish(IF self.templates_type = "list"
                   THEN Raise(lookup_error(self.templates_type))
                   ELSE Return([NoVal EXCEPT
                          !.type = "dict",
                          !.id = IF get_template(template_name, templates) = <<>>
                                 THEN None ELSE template_name]))

\* app.py lines 6-43: main up to the end of its generate_images call; the
\* upload either gave an image id (two requests) or raised LeonardoAIError
main ==
    /\ Callable
    /\ \E uploaded \in BOOLEAN, resp \in SubmitAnswers :
         LET name == "artimage"
             t1 == SetKey(templates[name], "init_image_id", "img1")
             t2 == SetKey(t1, "init_strength", "0.2")
             t3 == SetKey(t2, "prompt", "An abstract oil painting of a beagle")
         IN  IF uploaded /\ name \in DOMAIN templates
             THEN run_generate_images(
                      "main", [templates EXCEPT ![name] = t3], t3, None,
                      "True", resp, 2)
             ELSE /\ op' = "main"
                  /\ UNCHANGED <<templates, filev>>
                  /\ args' = NoArgs
                  /\ locals' = NoLocals
                  /\ sent' = NoRequest
                  /\ reply' = NoAnswer
                  /\ nreq' = IF uploaded THEN 2 ELSE 1
                  /\ NoLoop
                  /\ Finish(IF uploaded THEN Raise("UnboundLocalError")
                            ELSE Return(NoVal))

\* -------------------------------------------------------------- the loops
Intervals == 1 .. MaxInterval
Timeouts == -1 .. MaxTimeout
Latencies == {0, MaxLatency}

\* lines 94, 321, 441, 539: the loop is entered
EnterLoop(interval, limit, id) ==
    /\ pc' = "poll"
    /\ poll_interval' = interval
    /\ timeout' = limit
    /\ now' = 0
    /\ start_time' = now'
    /\ latency' \in Latencies
    /\ job_id' = id
    /\ checks' = 0
    /\ answer' = NoAnswer
    /\ onlyPending' = TRUE
    /\ result' = "none"
    /\ error' = None

\* lines 306-308 and 321: generate_images calls
\* wait_for_generation_completion(generation_id); its own parameters are
\* not used again
enter_wait ==
    /\ pc = "wait"
    /\ EnterLoop(DefaultPollInterval, DefaultTimeout, retval.id)
    /\ args' = NoArgs
    /\ locals' = NoLocals
    /\ reply' = NoAnswer
    /\ UNCHANGED <<templates, op, sent, nreq, retval, filev>>

\* a direct call of one of the three loops that take the job id
call_loop(name) ==
    /\ Callable
    /\ \E interval \in Intervals, limit \in Timeouts :
         EnterLoop(interval, limit, "j1")
    /\ op' = name
    /\ args' = NoArgs
    /\ locals' = NoLocals
    /\ sent' = NoRequest
    /\ reply' = NoAnswer
    /\ nreq' = 0
    /\ retval' = NoVal
    /\ UNCHANGED <<templates, filev>>

\* lines 313-321
wait_for_generation_completion == call_loop("wait_for_generation_completion")

\* lines 85-94
poll_job_completion == call_loop("_poll_job_completion")

\* lines 432-441
get_upscaled_image == call_loop("get_upscaled_image")

\* answers to POST variations/universal-upscaler
UpscalerBodies ==
    { [shape |-> "upscaler", job |-> j, id |-> g] :
        j \in {"absent", "null", "obj"}, g \in {None, "", "j1"} }

UpscalerAnswers ==
    FailedAnswers \cup
    { Http(200, b) : b \in { x \in UpscalerBodies :
                               x.job # "obj" => x.id = None } }

\* lines 533-537 and 556-558: the submission of create_universal_upscaler
submit_upscaler(resp) ==
    LET b == resp.body
    IN  IF resp.net = "down" THEN Raise("ConnectionError")
        ELSE IF resp.code # 200 THEN Raise("RequestFailed")
        ELSE IF resp.json = "bad" THEN Raise("JSONDecodeError")
        ELSE IF b.job = "null" THEN Raise("AttributeError")
        ELSE IF b.job = "absent" \/ b.id \in {None, ""}
             THEN Raise("NoUpscalerJobId")
        ELSE Return([NoVal EXCEPT !.type = "str", !.id = b.id])

\* lines 517-539: a call of create_universal_upscaler up to its loop
create_universal_upscaler ==
    /\ Callable
    /\ \E interval \in Intervals, limit \in Timeouts,
          resp \in UpscalerAnswers :
         LET sub == submit_upscaler(resp)
         IN  /\ op' = "create_universal_upscaler"
             /\ args' = NoArgs
             /\ locals' = NoLocals
             /\ sent' = Request("POST", "variations/universal-upscaler", None,
                                [generatedImageId |-> "img1"])
             /\ reply' = resp
             /\ nreq' = 1
             /\ UNCHANGED <<templates, filev>>
             /\ IF sub.act = "raise"
                THEN NoLoop /\ Finish(sub)
                ELSE EnterLoop(interval, limit, sub.val.id) /\ retval' = NoVal

\* what the caller of the loop gets when the loop returns v: generate_images
\* stores it under image_info (line 309)
Returned(v) ==
    IF LoopOf(op) # op
    THEN [retval EXCEPT !.image_info = v.type, !.status = v.status,
                        !.images = v.images]
    ELSE v

\* one iteration of the loop in progress: the loop test holds, the status
\* request is sent and takes `latency`, the answer is handled, and unless
\* the loop ends it sleeps
iterate ==
    /\ pc = "poll"
    /\ within_timeout(now, start_time, timeout)
    /\ \E resp \in AnswersOf(LoopOf(op)) :
         LET out == iteration(LoopOf(op), resp)
         IN  /\ sent' = Request("GET", EndpointOf(LoopOf(op)), job_id, <<>>)
             /\ nreq' = nreq + 1
             /\ checks' = checks + 1
             /\ answer' = resp
             /\ onlyPending' = (onlyPending /\
                                  (checks = 0 \/ ReportsPending(answer)))
             /\ IF out.act = "sleep"
                THEN /\ now' = now + latency + poll_interval
                     /\ UNCHANGED <<pc, result, error, retval>>
                ELSE /\ now' = now + latency
                     /\ Finish(IF out.act = "return"
                               THEN Return(Returned(out.val)) ELSE out)
    /\ UNCHANGED <<templates, op, args, locals, reply, poll_interval,
                   timeout, start_time, job_id, latency, filev>>

\* lines 114, 330, 463, 554: the loop test fails
timed_out ==
    /\ pc = "poll"
    /\ ~within_timeout(now, start_time, timeout)
    /\ Finish(Raise("Timeout"))
    /\ UNCHANGED <<templates, op, args, locals, sent, reply, nreq, pollv,
                   filev>>

\* lines 117-141: a direct call of get_single_generation
call_get_single_generation ==
    /\ Callable
    /\ \E resp \in GenerationAnswers :
         /\ op' = "get_single_generation"
         /\ args' = NoArgs
         /\ locals' = NoLocals
         /\ sent' = Request("GET", "generations", "g1", <<>>)
         /\ reply' = NoAnswer
         /\ nreq' = 1
         /\ NoLoopBut(resp)
         /\ Finish(get_single_generation(resp))
    /\ UNCHANGED <<templates, filev>>

\* ------------------------------------------------- single-request lookups
\* a call that sends one request and ends: `rep` is the answer to a
\* submission, `ans` the answer to a lookup
request_once(name, req, rep, ans, out) ==
    /\ Callable
    /\ op' = name
    /\ args' = NoArgs
    /\ locals' = NoLocals
    /\ sent' = req
    /\ reply' = rep
    /\ nreq' = 1
    /\ NoLoopBut(ans)
    /\ Finish(out)
    /\ UNCHANGED <<templates, filev>>

\* line 407: [image['id'] for image in generation_info]; iterating a dict
\* yields its keys, and a key is a str, which has no index 'id'
image_ids(v) ==
    IF v.type = "list"
    THEN Return(ListVal([n \in 1 .. Len(v.images) |-> v.images[n].id]))
    ELSE Raise("TypeError")

\* lines 405-410: every exception ends in the empty list
list_image_ids_from_generation(resp) ==
    LET g == get_single_generation(resp)
        r == IF g.act = "raise" THEN g ELSE image_ids(g.val)
    IN  IF r.act = "raise" THEN Return(ListVal(<<>>)) ELSE r

\* lines 398-410: a call of list_image_ids_from_generation
call_list_image_ids_from_generation ==
    \E resp \in GenerationAnswers :
       request_once("list_image_ids_from_generation",
                    Request("GET", "generations", "g1", <<>>),
                    NoAnswer, resp, list_image_ids_from_generation(resp))

\* bodies of GET generations/user/{id}: the key generations is absent, null
\* or a list
UserGenerationBodies ==
    { [shape |-> "generations", key |-> "absent", generations |-> <<>>],
      [shape |-> "generations", key |-> "null", generations |-> <<>>],
      [shape |-> "generations", key |-> "present", generations |-> <<>>],
      [shape |-> "generations", key |-> "present",
       generations |-> <<[id |-> "g1"]>>] }

UserGenerationAnswers ==
    FailedAnswers \cup { Http(200, b) : b \in UserGenerationBodies }

\* lines 565-571: response.get('generations', []), and [] on any exception
get_generations_by_user_id(resp) ==
    LET r == make_request(resp)
        b == resp.body
    IN  IF r.act = "raise" THEN Return(ListVal(<<>>))
        ELSE IF b.key = "null" THEN Return(NoVal)
        ELSE Return(ListVal(b.generations))

\* lines 560-571: a call of get_generations_by_user_id
call_get_generations_by_user_id ==
    \E resp \in UserGenerationAnswers :
       request_once("get_generations_by_user_id",
                    Request("GET", "generations/user", "u1", <<>>),
                    NoAnswer, resp, get_generations_by_user_id(resp))

\* the body of a successful DELETE
DeleteAnswers == FailedAnswers \cup { Http(200, [shape |-> "delete"]) }

\* the deletion that hands the failure of its request on
delete_or_raise(resp) ==
    IF make_request(resp).act = "raise" THEN make_request(resp)
    ELSE Return(NoVal)

\* lines 578-582: the method returns None whatever the request did
delete_generation_by_id(resp) == Return(NoVal)

\* lines 573-582: a call of delete_generation_by_id
call_delete_generation_by_id ==
    \E resp \in DeleteAnswers :
       request_once("delete_generation_by_id",
                    Request("DELETE", "generations", "g1", <<>>),
                    NoAnswer, resp, delete_generation_by_id(resp))

\* generated_images of a motion generation; motionMP4URL is None while
\* there is no video, and "nokey" is an item without the key
MotionItems ==
    { [motionMP4URL |-> u] : u \in {None, "nokey", "http://x/m.mp4"} }

MotionBodies ==
    { [shape |-> "motion", pk |-> "absent", generated_images |-> <<>>],
      [shape |-> "motion", pk |-> "null", generated_images |-> <<>>],
      [shape |-> "motion", pk |-> "obj", generated_images |-> <<>>] }
    \cup { [shape |-> "motion", pk |-> "obj", generated_images |-> <<a>>] :
             a \in MotionItems }
    \cup { [shape |-> "motion", pk |-> "obj",
             generated_images |-> <<[motionMP4URL |-> None], a>>] :
             a \in MotionItems }

MotionAnswers == FailedAnswers \cup { Http(200, b) : b \in MotionBodies }

\* lines 652-654: the scan of the items, from item n on; when no item has
\* a url the method runs off its end and returns None
RECURSIVE scan_motion(_, _)
scan_motion(items, n) ==
    IF n > Len(items) THEN Return(NoVal)
    ELSE IF items[n].motionMP4URL = "nokey" THEN Raise("MotionImageError")
    ELSE IF items[n].motionMP4URL # None
         THEN Return(StrVal(items[n].motionMP4URL))
    ELSE scan_motion(items, n + 1)

\* lines 646-662: every exception is raised again as LeonardoAIError
get_motion_image_url_by_generation_id(resp) ==
    LET b == resp.body
    IN  IF resp.net = "down" \/ resp.code # 200 \/ resp.json = "bad"
        THEN Raise("MotionImageError")
        ELSE IF b.pk # "obj" THEN Raise("MotionImageError")
        ELSE scan_motion(b.generated_images, 1)

\* lines 639-662: a call of get_motion_image_url_by_generation_id
call_get_motion_image_url_by_generation_id ==
    \E resp \in MotionAnswers :
       request_once("get_motion_image_url_by_generation_id",
                    Request("GET", "generations", "m1", <<>>),
                    NoAnswer, resp,
                    get_motion_image_url_by_generation_id(resp))

\* ---------------------------------------------- single-request submissions
\* answers to the POSTs that hand back the parsed body
DirectAnswers ==
    FailedAnswers \cup {NoContent, Http(200, [shape |-> "json"])}

\* lines 424-430, 485-492, 607-612: requests.post, then response.json() on
\* 200 and one error for every other status
direct_post(resp) ==
    IF resp.net = "down" THEN Raise("ConnectionError")
    ELSE IF resp.code = 200
         THEN IF resp.json = "bad" THEN Raise("JSONDecodeError")
              ELSE Return([NoVal EXCEPT !.type = "dict"])
    ELSE Raise("RequestFailed")

\* lines 412-430
upscale_image ==
    \E resp \in DirectAnswers :
       request_once("upscale_image",
                    Request("POST", "variations/upscale", None,
                            [id |-> "img1"]),
                    resp, NoAnswer, direct_post(resp))

\* lines 466-492
create_motion_generation ==
    \E resp \in DirectAnswers :
       request_once("create_motion_generation",
                    Request("POST", "generations-motion-svd", None,
                            [imageId |-> "img1"]),
                    resp, NoAnswer, direct_post(resp))

\* lines 593-612
create_unzoom ==
    \E resp \in DirectAnswers :
       request_once("create_unzoom",
                    Request("POST", "variations/unzoom", None,
                            [id |-> "img1"]),
                    resp, NoAnswer, direct_post(resp))

\* ------------------------------------------------------------------ upload
\* bodies of POST init-image: uploadInitImage is absent, lacks its fields,
\* has fields that are not JSON text, or is complete
InitImageBodies ==
    { [shape |-> "init", uploadInitImage |-> u, url |-> "http://s3/upload",
       id |-> "img1"] : u \in {"absent", "nofields", "badfields", "ok"} }

InitImageAnswers ==
    FailedAnswers \cup {NoContent} \cup { Http(200, b) : b \in InitImageBodies }

\* answers of the upload target to the multipart POST
UploadAnswers == {Down} \cup { Http(c, NoBody) : c \in {200, 204, 403} }

\* lines 623-629: the first request and the reading of its answer
init_image_target(resp) ==
    LET r == make_request(resp)
        b == resp.body
    IN  IF r.act = "raise" THEN r
        ELSE IF b.uploadInitImage \in {"absent", "nofields"}
             THEN Raise("KeyError")
        ELSE IF b.uploadInitImage = "badfields" THEN Raise("JSONDecodeError")
        ELSE Return([NoVal EXCEPT !.type = "dict", !.url = b.url, !.id = b.id])

\* any 2xx confirms the upload
upload_succeeded(code) == code \in 200 .. 299

\* line 634: upload_response.status_code != 204 raises
upload_confirmed(code) == code = 204

\* lines 614-637: a call of upload_init_image; `first` answers POST
\* init-image, `readable` is whether the image file opens, `second` answers
\* the multipart POST
upload_init_image ==
    /\ Callable
    /\ \E first \in InitImageAnswers, readable \in BOOLEAN,
          second \in UploadAnswers :
         LET target == init_image_target(first)
         IN  /\ op' = "upload_init_image"
             /\ args' = NoArgs
             /\ locals' = NoLocals
             /\ reply' = first
             /\ UNCHANGED <<templates, filev>>
             /\ IF target.act = "raise" \/ ~readable
                THEN /\ sent' = Request("POST", "init-image", None,
                                        [extension |-> "jpg"])
                     /\ nreq' = 1
                     /\ NoLoop
                     /\ Finish(IF target.act = "raise" THEN target
                               ELSE Raise("FileNotFoundError"))
                ELSE /\ sent' = Request("POST", target.val.url, None,
                                        [file |-> "pic.jpg"])
                     /\ nreq' = 2
                     /\ NoLoopBut(second)
                     /\ Finish(IF second.net = "down"
                               THEN Raise("ConnectionError")
                               ELSE IF upload_confirmed(second.code)
                               THEN Return([NoVal EXCEPT !.type = "str",
                                                         !.id = target.val.id])
                               ELSE Raise("UploadFailed"))

\* ------------------------------------------------------------- construction
ApiKeys == {"", None, "test_api_key"}

\* any key passes
key_accepted(api_key) == TRUE

\* line 21: not self.api_key
key_given(api_key) == api_key \notin {"", None}

\* bodies of GET me: user_details is absent, an empty list, or holds the user
MeBodies ==
    { [shape |-> "me", user_details |-> d] : d \in {"absent", "empty", "u1"} }

MeAnswers == FailedAnswers \cup { Http(200, b) : b \in MeBodies }

\* lines 40-44: every exception is raised again as LeonardoAIError
get_user_id(resp) ==
    LET r == make_request(resp)
    IN  IF r.act = "raise" THEN Raise("UserIdError")
        ELSE IF resp.body.user_details \in {"absent", "empty"}
             THEN Raise("UserIdError")
        ELSE Return([NoVal EXCEPT !.type = "str", !.id = resp.body.user_details])

\* the template_file argument: none given, a file that cannot be opened
\* ("missing", "unreadable"), one that is not JSON ("unparsable"), one that
\* holds a JSON list instead of a mapping ("list"), or a mapping
TemplateFiles ==
    { [state |-> st, json |-> <<>>] :
        st \in {"none", "missing", "unreadable", "unparsable", "list"} }
    \cup { [state |-> "mapping", json |-> r] : r \in LoadedRegistries }

\* lines 30-33 and 47-59: self.templates is {} without a file or after any
\* exception of open and json.load, else whatever json.load returned
load_templates(file) ==
    [templates |-> IF file.state = "mapping" THEN file.json ELSE <<>>,
     type |-> IF file.state = "list" THEN "list" ELSE "dict"]

\* lines 14-33: LeonardoAI(api_key, template_file).  The caller holds the
\* new client only when the constructor returns.
LeonardoAI ==
    /\ Callable
    /\ \E api_key \in ApiKeys, file \in TemplateFiles, resp \in MeAnswers :
         LET uid == get_user_id(resp)
             loaded == load_templates(file)
         IN  /\ op' = "LeonardoAI"
             /\ args' = [NoArgs EXCEPT !.given =
                            [api_key |-> api_key, template_file |-> file.state]]
             /\ locals' = NoLocals
             /\ reply' = NoAnswer
             /\ UNCHANGED callers
             /\ IF ~key_given(api_key)
                THEN /\ sent' = NoRequest
                     /\ nreq' = 0
                     /\ NoLoop
                     /\ Finish(Raise("ApiKeyMissing"))
                     /\ UNCHANGED <<templates, template_file, self>>
                ELSE /\ sent' = Request("GET", "me", None, <<>>)
                     /\ nreq' = 1
                     /\ NoLoopBut(resp)
                     /\ IF uid.act = "raise"
                        THEN /\ Finish(uid)
                             /\ UNCHANGED <<templates, template_file, self>>
                        ELSE /\ templates' = loaded.templates
                             /\ template_file' = loaded.templates
                             /\ self' = Client(api_key, uid.val.id, loaded.type)
                             /\ Finish(Return([NoVal EXCEPT
                                    !.type = "LeonardoAI", !.id = uid.val.id]))

\* the caller has the outcome of the call and is free to call again; the
\* registry is all that lives on (app.py lines 34-39)
return_to_caller ==
    /\ pc = "done"
    /\ pc' = "idle"
    /\ op' = "none"
    /\ args' = NoArgs
    /\ locals' = NoLocals
    /\ sent' = NoRequest
    /\ reply' = NoAnswer
    /\ nreq' = 0
    /\ NoLoop
    /\ result' = "none"
    /\ error' = None
    /\ retval' = NoVal
    /\ UNCHANGED <<templates, filev>>

Next ==
    \/ generate_images
    \/ generate_image_from_template
    \/ call_get_template
    \/ main
    \/ enter_wait
    \/ wait_for_generation_completion
    \/ poll_job_completion
    \/ get_upscaled_image
    \/ create_universal_upscaler
    \/ iterate
    \/ timed_out
    \/ call_get_single_generation
    \/ call_list_image_ids_from_generation
    \/ call_get_generations_by_user_id
    \/ call_delete_generation_by_id
    \/ call_get_motion_image_url_by_generation_id
    \/ upscale_image
    \/ create_motion_generation
    \/ create_unzoom
    \/ LeonardoAI
    \/ upload_init_image
    \/ return_to_caller

Spec == Init /\ [][Next]_vars

\* a poll loop in progress goes on: its status request and its sleep
\* complete, and so does the raise after the loop
SpecLive == Spec /\ WF_vars(iterate) /\ WF_vars(timed_out)

\* ------------------------------------------------------ callers in threads
\* Two callers run generate_image_from_template on the one client, each in
\* a thread; the interpreter switches threads between statements.  A frame
\* holds the caller's locals; self.templates is the client's.
\* the prompt each caller passes: the callers ask for different images
PromptOf == [c \in Callers |-> IF c = "A" THEN "p1" ELSE "p2"]

\* lines 510-511 and 515: the call, the lookup and the test of its result
thread_get_template(c) ==
    /\ callers[c].pc = "idle"
    /\ \E template_name \in TemplateNames :
         LET template == get_template(template_name, templates)
             frame == [NoFrame EXCEPT !.prompt = PromptOf[c],
                                      !.template_name = template_name]
         IN  callers' = [callers EXCEPT ![c] =
                 IF template # <<>>
                 THEN [frame EXCEPT !.pc = "write"]
                 ELSE [frame EXCEPT !.pc = "done", !.result = "raised",
                                    !.error = lookup_error(self.templates_type)]]
    /\ UNCHANGED <<templates, callv, pollv, outv, template_file, self>>

\* line 512: template['prompt'] = prompt, on the registry's own dict
thread_write_prompt(c) ==
    /\ callers[c].pc = "write"
    /\ templates' = [templates EXCEPT ![callers[c].template_name] =
                        SetKey(@, "prompt", callers[c].prompt)]
    /\ callers' = [callers EXCEPT ![c].pc = "call"]
    /\ UNCHANGED <<callv, pollv, outv, template_file, self>>

\* line 513 and lines 226-306: generate_images(**template) reads the dict
\* as it is now, validates, submits and enters the wait
thread_generate_images(c) ==
    /\ callers[c].pc = "call"
    /\ \E resp \in SubmitAnswers :
         LET m == Bind(templates[callers[c].template_name])
             r == force_alchemy(m)
             sub == submit_generation(resp)
         IN  callers' = [callers EXCEPT ![c] =
                 IF v2_rejected(m)
                 THEN [@ EXCEPT !.pc = "done", !.result = "raised",
                                !.error = "PhotoRealV2Model"]
                 ELSE IF sub.act = "raise"
                 THEN [@ EXCEPT !.pc = "done", !.result = "raised",
                                !.error = sub.err,
                                !.sent = Request("POST", "generations", None,
                                                 build_payload(r))]
                 ELSE [@ EXCEPT !.pc = "poll",
                                !.sent = Request("POST", "generations", None,
                                                 build_payload(r))]]
    /\ UNCHANGED <<templates, callv, pollv, outv, template_file, self>>

\* lines 322-329: one iteration of the caller's wait, on its own locals
thread_iterate(c) ==
    /\ callers[c].pc = "poll"
    /\ within_timeout(callers[c].waited, 0, DefaultTimeout)
    /\ \E resp \in GenerationAnswers :
         LET out == wait_iteration(resp)
         IN  callers' = [callers EXCEPT ![c] =
                 IF out.act = "sleep"
                 THEN [@ EXCEPT !.checks = @ + 1,
                                !.waited = @ + DefaultPollInterval]
                 ELSE [@ EXCEPT !.checks = @ + 1, !.pc = "done",
                                !.result = IF out.act = "return"
                                           THEN "returned" ELSE "raised",
                                !.error = out.err]]
    /\ UNCHANGED <<templates, callv, pollv, outv, template_file, self>>

\* line 330: the caller's wait timed out
thread_timed_out(c) ==
    /\ callers[c].pc = "poll"
    /\ ~within_timeout(callers[c].waited, 0, DefaultTimeout)
    /\ callers' = [callers EXCEPT ![c] =
            [@ EXCEPT !.pc = "done", !.result = "raised", !.error = "Timeout"]]
    /\ UNCHANGED <<templates, callv, pollv, outv, template_file, self>>

NextThreads ==
    \E c \in Callers :
       \/ thread_get_template(c)
       \/ thread_write_prompt(c)
       \/ thread_generate_images(c)
       \/ thread_iterate(c)
       \/ thread_timed_out(c)

SpecThreads == Init /\ [][NextThreads]_vars

\* ------------------------------------------------------------------ claims
\* every status answer the loop got so far reported a running job
AllPending == onlyPending /\ (checks = 0 \/ ReportsPending(answer))

\* the answer is that of a finished job with its artifact
ReportsComplete(resp) ==
    /\ ReportedStatus(resp) = "COMPLETE"
    /\ resp.body.shape = "generation" => resp.body.generated_images # <<>>
    /\ resp.body.shape = "variation" =>
         resp.body.items[1].url \notin {None, "nokey"}

\* the value v is the artifact of the status answer resp
TakenFrom(v, resp) ==
    /\ v.status = "COMPLETE"
    /\ resp.body.shape = "generation" => v.images = resp.body.generated_images
    /\ resp.body.shape = "variation" => v.url = resp.body.items[1].url

\* C1: in _poll_job_completion, get_upscaled_image and the loop of
\* create_universal_upscaler, a status answer that reports the job FAILED
\* ends the poll on that iteration with the job-failed error, so no further
\* status request follows it.
C1_FailedEndsPoll ==
    ( /\ LoopOf(op) \in {"_poll_job_completion", "get_upscaled_image",
                         "create_universal_upscaler"}
      /\ checks > 0
      /\ ReportedStatus(answer) = "FAILED" )
    => (pc = "done" /\ result = "raised" /\ error = "JobFailed")

\* C2: when generate_images is called with a registered template_name, every
\* field given by the caller is submitted with the caller's value, a field
\* only the template has with the template's value, and a field neither has
\* with the default (alchemy aside when photoReal v2 forces it).
C2_OverridePrecedence ==
    ( /\ op = "generate_images"
      /\ sent.method = "POST"
      /\ args.template_name \in DOMAIN templates )
    => \A f \in TemplateFields :
          \/ f = "alchemy" /\ sent.payload["photoRealVersion"] = "v2"
          \/ sent.payload[PayloadKey(f)] =
               IF f \in DOMAIN args.given THEN args.given[f]
               ELSE IF f \in DOMAIN templates[args.template_name]
                    THEN templates[args.template_name][f]
               ELSE Defaults[f]

\* C3: no step of any operation changes the template registry.
C3_RegistryReadOnly == [][templates' = templates]_vars

\* C4: whenever a poll loop returns a value, the status of the payload it
\* returned from is COMPLETE.
C4_ReturnsOnlyComplete ==
    (checks > 0 /\ result = "returned") => retval.status = "COMPLETE"

\* C5: a poll whose last status request failed at transport level (no
\* connection, unparsable body, non-200) has not ended, unless by timeout.
C5_TransportFailureIsTransient ==
    (checks > 0 /\ ReportedStatus(answer) = "transport" /\ pc = "done")
    => (result = "raised" /\ error = "Timeout")

C7_PromptOnlyReturnsId ==
    ( /\ op = "generate_images"
      /\ pc \in {"wait", "done"}
      /\ DOMAIN args.given = {"prompt"}
      /\ args.template_name = None )
    => /\ reply # NoAnswer
       /\ ( /\ reply.code = 200
            /\ reply.json = "ok"
            /\ reply.body.job = "obj"
            /\ reply.body.generationId \notin {None, ""} )
          => (result # "raised" /\ retval.id = reply.body.generationId)

C10_ReturnsImageList ==
    ( /\ op \in {"get_single_generation", "wait_for_generation_completion"}
      /\ result = "returned" )
    => (retval.type = "list" /\ retval.images = answer.body.generated_images)

\* C11: list_image_ids_from_generation(g), when the service answers with
\* generation g and its images i1..ik, returns the ids of i1..ik in order,
\* and returns the empty list only when the answer holds no image.
C11_ListsImageIds ==
    ( /\ op = "list_image_ids_from_generation"
      /\ pc = "done"
      /\ ReportedStatus(answer) \in JobStatuses )
    => /\ result = "returned"
       /\ retval.type = "list"
       /\ Len(retval.images) = Len(answer.body.generated_images)
       /\ \A n \in 1 .. Len(retval.images) :
             retval.images[n] = answer.body.generated_images[n].id

\* C12: list_image_ids_from_generation, get_generations_by_user_id,
\* delete_generation_by_id and get_motion_image_url_by_generation_id raise an
\* error whenever their request failed or the answer lacks the data asked
\* for; none of them returns normally then.
C12_NoSilentFailure ==
    ( /\ op \in {"list_image_ids_from_generation",
                  "get_generations_by_user_id", "delete_generation_by_id",
                  "get_motion_image_url_by_generation_id"}
      /\ pc = "done"
      /\ \/ ReportedStatus(answer) = "transport"
         \/ /\ answer.body.shape = "motion"
            /\ \A n \in 1 .. Len(answer.body.generated_images) :
                  answer.body.generated_images[n].motionMP4URL = None )
    => result = "raised"

\* C13: every operation that sends one request and hands its failure on
\* classifies the answer's status alike: 2xx is no status error, 401 is the
\* auth error, 404 the not-found error, any other status the transport error.
C13_UniformStatusMapping ==
    ( /\ op \in {"generate_images", "upscale_image",
                  "create_motion_generation", "create_unzoom",
                  "create_universal_upscaler"}
      /\ pc = "done"
      /\ checks = 0
      /\ reply.net = "up" )
    => /\ reply.code \in 200 .. 299
          => error \notin {"Unauthorized", "NotFound", "RequestFailed"}
       /\ reply.code = 401 => (result = "raised" /\ error = "Unauthorized")
       /\ reply.code = 404 => (result = "raised" /\ error = "NotFound")
       /\ reply.code \notin (200 .. 299) \cup {401, 404}
          => (result = "raised" /\ error = "RequestFailed")

\* C14: when the 200 answer to the submission of generate_images or of
\* create_universal_upscaler has no job id (the id or the object that holds
\* it is missing or null, or the id is empty), the call ends with the
\* submission error, returns no id and sends no status request.
C14_NoPollWithoutJobId ==
    ( /\ op \in {"generate_images", "generate_image_from_template",
                  "create_universal_upscaler"}
      /\ reply.net = "up" /\ reply.code = 200 /\ reply.json = "ok"
      /\ \/ reply.body.job # "obj"
         \/ reply.body.shape = "submit" /\ reply.body.generationId \in {None, ""}
         \/ reply.body.shape = "upscaler" /\ reply.body.id \in {None, ""} )
    => /\ pc = "done"
       /\ result = "raised"
       /\ error \in {"NoGenerationId", "NoUpscalerJobId"}
       /\ retval.id = None
       /\ checks = 0
       /\ nreq = 1

\* C15: a submission is one request and is never sent again; a
\* generate_images call whose submission is answered 401 ends with the auth
\* error after that one request and without a status check.
C15_SubmissionNotRetried ==
    ( /\ op \in {"generate_images", "generate_image_from_template",
                  "upscale_image", "create_motion_generation",
                  "create_unzoom", "create_universal_upscaler"}
      /\ pc # "idle" )
    => /\ nreq - checks = IF sent.method = None THEN 0 ELSE 1
       /\ (reply.net = "up" /\ reply.code = 401 /\ LoopOf(op) # op)
          => /\ pc = "done"
             /\ result = "raised"
             /\ error = "Unauthorized"
             /\ nreq = 1
             /\ checks = 0

\* C15 is reached: generate_images got 401 for its submission
C15_Witness ==
    /\ op = "generate_images"
    /\ sent.method = "POST"
    /\ reply.net = "up"
    /\ reply.code = 401
    /\ pc = "done"
    /\ error = "Unauthorized"
    /\ nreq = 1

\* C16: a call that names a template the registry does not hold, through
\* generate_images with a non-empty template_name or through
\* generate_image_from_template, ends with a validation error and has sent
\* no request.
C16_UnknownTemplateRejected ==
    /\ ( /\ op = "generate_images"
         /\ pc # "idle"
         /\ args.template_name \notin {None, ""} \cup DOMAIN templates )
       => /\ pc = "done"
          /\ result = "raised"
          /\ error \in {"TemplateNotFound", "PhotoRealV2Model"}
          /\ sent = NoRequest
    /\ ( /\ op = "generate_image_from_template"
         /\ pc # "idle"
         /\ DOMAIN templates = {} )
       => /\ pc = "done"
          /\ result = "raised"
          /\ error = "TemplateNotFound"
          /\ sent = NoRequest

\* C17: the payload a generate_images or generate_image_from_template call
\* submits is the one its arguments give on the registry as it was loaded
\* at construction, whatever calls were made on the client before.
C17_NoCrossRequestState ==
    /\ (op = "generate_images" /\ sent.method = "POST" /\ args # NoArgs)
       => sent.payload =
            build_payload(force_alchemy(
                merge_template(template_file, args.template_name,
                               Bind(args.given))))
    /\ ( /\ op = "generate_image_from_template"
         /\ sent.method = "POST"
         /\ args # NoArgs )
       => sent.payload =
            build_payload(force_alchemy(Bind(
                SetKey(template_file["artimage"], "prompt",
                       args.given["prompt"]))))

\* C18: under every interleaving of two callers of
\* generate_image_from_template on one client, the request a caller submits
\* carries the prompt that caller passed.
C18_CallersIndependent ==
    \A c \in Callers :
       callers[c].sent.method = "POST"
       => callers[c].sent.payload["prompt"] = callers[c].prompt

\* C19: a status answer that reports completion without the keys of its
\* kind (an upscale item COMPLETE without url, a generation COMPLETE without
\* generated_images) ends the poll on that iteration with a shape error.
C19_ShapeErrorEndsPoll ==
    ( /\ checks > 0
      /\ ReportedStatus(answer) = "COMPLETE"
      /\ \/ /\ LoopOf(op) = "get_upscaled_image"
            /\ answer.body.items[1].url = "nokey"
         \/ /\ LoopOf(op) = "wait_for_generation_completion"
            /\ answer.body.generated_images = <<>> )
    => /\ pc = "done"
       /\ result = "raised"
       /\ error \in {"KeyError", "GenerationNotFound"}

\* C20: constructing the client with an empty API key raises the error
\* before any request is sent, and the caller gets no client.
C20_EmptyKeyRejected ==
    (op = "LeonardoAI" /\ pc = "done" /\ args.given["api_key"] = "")
    => /\ result = "raised"
       /\ error = "ApiKeyMissing"
       /\ nreq = 0
       /\ sent = NoRequest
       /\ answer = NoAnswer
       /\ retval = NoVal

\* C20 is reached: the constructor was called with the empty key
C20_Witness ==
    /\ op = "LeonardoAI"
    /\ pc = "done"
    /\ args.given["api_key"] = ""
    /\ error = "ApiKeyMissing"

\* C21: constructing the client with a non-empty API key k and no template
\* file succeeds, and the client has api_key = k and its base_url set.
C21_ConstructionSucceeds ==
    ( /\ op = "LeonardoAI"
      /\ pc = "done"
      /\ args.given["api_key"] \notin {"", None}
      /\ args.given["template_file"] = "none" )
    => /\ result = "returned"
       /\ retval.type = "LeonardoAI"
       /\ self.api_key = args.given["api_key"]
       /\ self.base_url = base_url
       /\ templates = <<>>

\* C25: constructing the client with a template file that is missing,
\* unreadable or malformed does not fail for that; the client has an empty
\* registry, and generate_image_from_template on it ends with the
\* template-not-found error.
C25_BadTemplateFileDegrades ==
    /\ ( /\ op = "LeonardoAI"
         /\ pc = "done"
         /\ args.given["template_file"] \in
              {"missing", "unreadable", "unparsable", "list"}
         /\ get_user_id(answer).act = "return" )
       => /\ result = "returned"
          /\ templates = <<>>
          /\ self.templates_type = "dict"
    /\ ( /\ op = "generate_image_from_template"
         /\ pc = "done"
         /\ templates = <<>> )
       => (result = "raised" /\ error = "TemplateNotFound" /\ nreq = 0)

\* C22: generate_images with wait_for_completion=False returns, on success,
\* the generation id alone and sends no status request; with
\* wait_for_completion=True it returns only what the wait returned on its
\* last status answer, and every status request follows the submission's
\* answer and addresses the id that answer gave.
C22_FireAndForget ==
    /\ (op = "generate_images" /\ args.wait = "False")
       => /\ pc = "done"
          /\ checks = 0
          /\ nreq <= 1
          /\ result = "returned"
             => /\ retval.image_info = "absent"
                /\ retval.images = <<>>
                /\ retval.id = reply.body.generationId
                /\ retval.id \notin {None, ""}
    /\ (op \in {"generate_images", "generate_image_from_template"}
          /\ pc = "wait")
       => /\ retval.id = reply.body.generationId
          /\ retval.id \notin {None, ""}
          /\ checks = 0
          /\ result = "none"
    /\ (op \in {"generate_images", "generate_image_from_template"}
          /\ pc = "poll")
       => (job_id = retval.id /\ result = "none")
    /\ (op \in {"generate_images", "generate_image_from_template"}
          /\ checks > 0)
       => /\ sent = Request("GET", "generations", job_id, <<>>)
          /\ nreq = checks + 1
    /\ (op \in {"generate_images", "generate_image_from_template"}
          /\ result = "returned" /\ args.wait # "False")
       => /\ checks > 0
          /\ retval.image_info # "absent"
          /\ wait_iteration(answer).act = "return"
          /\ retval.id = job_id

\* C22 is reached: a fire-and-forget call returned its generation id
C22_Witness ==
    /\ op = "generate_images"
    /\ args.wait = "False"
    /\ result = "returned"
    /\ retval.id = "g1"
    /\ checks = 0

\* the fields generate_images resolves from the template and the arguments
Resolved(r) == [f \in TemplateFields |-> r[f]]

C27_V2ForcesAlchemy ==
    ( /\ sent.method = "POST"
      /\ sent.endpoint = "generations"
      /\ sent.payload["photoRealVersion"] = "v2" )
    => /\ sent.payload["alchemy"] = "True"
       /\ sent.payload["modelId"] \in photoreal_v2_models

\* C27 is reached: the caller passed alchemy false with photoReal v2, and
\* the payload was submitted with alchemy true
C27_Witness ==
    /\ op = "generate_images"
    /\ "alchemy" \in DOMAIN args.given
    /\ args.given["alchemy"] = "False"
    /\ sent.method = "POST"
    /\ sent.payload["photoRealVersion"] = "v2"
    /\ sent.payload["alchemy"] = "True"

C24_UploadTwoSteps ==
    (op = "upload_init_image" /\ pc = "done")
    => /\ nreq \in {1, 2}
       /\ nreq = 2 => init_image_target(reply).act = "return"
       /\ init_image_target(reply).act = "raise"
          => (nreq = 1 /\ result = "raised" /\ answer = NoAnswer)
       /\ result = "returned"
          => /\ nreq = 2
             /\ answer.net = "up"
             /\ answer.code = 204
             /\ retval.id = reply.body.id
       /\ (nreq = 2 /\ ~(answer.net = "up" /\ answer.code = 204))
          => result = "raised"

\* C24 is reached: the multipart request was answered 200 with a body, and
\* the call raised
C24_Witness ==
    /\ op = "upload_init_image"
    /\ pc = "done"
    /\ nreq = 2
    /\ answer.code = 200
    /\ error = "UploadFailed"

\* C28: every poll that was started ends: it returns or raises, whatever
\* the status answers are.
C28_PollTerminates == (pc = "poll") ~> (pc = "done")

\* C28 is reached: a poll whose every status request failed ended after
\* several of them
C28_Witness ==
    /\ op \in PollLoops
    /\ pc = "done"
    /\ checks >= 2
    /\ ReportedStatus(answer) = "transport"
    /\ error = "Timeout"

\* C29: a poll started with timeout <= 0 ends with the timeout error
\* without a status request and without a sleep; with timeout > 0 the
\* timeout error is raised only after at least one status request.
C29_NonPositiveTimeout ==
    (LoopOf(op) \in PollLoops /\ job_id # None)
    => /\ timeout <= 0
          => /\ checks = 0
             /\ answer = NoAnswer
             /\ now = start_time
             /\ pc \in {"poll", "done"}
             /\ pc = "done" => (result = "raised" /\ error = "Timeout")
       /\ (timeout > 0 /\ pc = "done" /\ error = "Timeout") => checks >= 1

\* C29 is reached: a poll with a negative timeout ended by the timeout
\* error
C29_Witness ==
    /\ op = "wait_for_generation_completion"
    /\ timeout < 0
    /\ pc = "done"
    /\ error = "Timeout"
    /\ checks = 0

====
